---------------------------- MODULE Spec2Model ----------------------------
(* A model of the nestjs-gate authorization gate (GateService and          *)
(* GateResponse): the ability map, the before/after hooks, the policy map, *)
(* the AsyncLocalStorage that carries the current user, and the query      *)
(* methods raw / inspect / check / allows / denies / any / none /          *)
(* authorize.                                                              *)
EXTENDS Integers, Sequences, FiniteSets, TLC

(***************************************************************************)
(* Bounds of the model.                                                    *)
(***************************************************************************)
\* longest before-hook list and longest after-hook list that is registered
MaxHooks == 2
\* longest ability list handed to check / any / allows / denies / none
MaxList == 2
\* number of raw calls in the body of one runWithUser scope
MaxBody == 2
\* largest number of policy providers the application registers
MaxProviders == 3
\* deepest nesting of runWithUser scopes
MaxDepth == 2
\* longest ability name whose method name is derived
MaxName == 3

(***************************************************************************)
(* Results: boolean | null | undefined | GateResponse (type Result).       *)
(* Every result is a record of the same shape so that results compare.     *)
(***************************************************************************)
Null == [kind |-> "null", allowed |-> FALSE, status |-> 0]
Undefined == [kind |-> "undefined", allowed |-> FALSE, status |-> 0]
Bool(b) == [kind |-> "boolean", allowed |-> b, status |-> 0]

\* new GateResponse(allowed): _status starts as null, written 0 here
GateResponse(allowed) == [kind |-> "GateResponse", allowed |-> allowed, status |-> 0]
allow == GateResponse(TRUE)
deny == GateResponse(FALSE)
withStatus(response, status) == [response EXCEPT !.status = status]
denyWithStatus(status) == withStatus(deny, status)
denyAsNotFound == denyWithStatus(404)

\* the status of the exception GateResponse.authorize() throws; 0: none thrown
ForbiddenStatus == 403
\* a variant: every denial is thrown as a ForbiddenException
authorizeResponse_forbidden(response) ==
  IF ~response.allowed THEN ForbiddenStatus ELSE 0

authorizeResponse(response) ==
  IF ~response.allowed
    THEN (IF response.status # 0 THEN response.status ELSE ForbiddenStatus)
    ELSE 0

\* A callback that throws: the awaits of the pipeline are rejected with the
\* error, which is carried here as a result that is no value (it is neither
\* nullish nor truthy) and that every step hands on without a further call.
\* Boom and Bang are two errors an application's callbacks throw.
Boom == 1
Bang == 2
Thrown(error) == [kind |-> "thrown", allowed |-> FALSE, status |-> error]
isThrown(r) == r.kind = "thrown"

\* x === null || x === undefined, the test behind ?? and ??=
isNullish(r) == r.kind \in {"null", "undefined"}
\* JavaScript truthiness of a Result
isTruthy(r) == CASE r.kind = "boolean" -> r.allowed
                 [] r.kind = "GateResponse" -> TRUE
                 [] OTHER -> FALSE

(***************************************************************************)
(* Users.  "undefined" is what getStore() gives outside every scope.       *)
(***************************************************************************)
Users == {"A", "B"}
Principals == Users \cup {"null"}
userTruthy(u) == u \notin {"null", "undefined"}

(***************************************************************************)
(* Subject classes and the values that appear in an args array.            *)
(***************************************************************************)
Classes == {"Base", "Derived", "Leaf", "Other"}
\* class Derived extends Base; class Leaf extends Derived; Base and Other
\* extend Object
Parent(c) == CASE c = "Derived" -> "Base"
               [] c = "Leaf" -> "Derived"
               [] OTHER -> "Object"
RECURSIVE Ancestors(_)
Ancestors(c) == IF c = "Object" THEN {} ELSE {Parent(c)} \cup Ancestors(Parent(c))

Instance(c) == [kind |-> "object", type |-> c]
ClassRef(c) == [kind |-> "function", type |-> c]
\* a falsy first argument (null, 0, '')
Falsy == [kind |-> "falsy", type |-> "Object"]
argTruthy(a) == a.kind # "falsy"

(***************************************************************************)
(* Ability names and method names are strings: sequences of characters.    *)
(***************************************************************************)
toLowerCase(c) == CASE c = "A" -> "a" [] c = "B" -> "b" [] c = "C" -> "c"
                    [] c = "P" -> "p" [] OTHER -> c
toUpperCase(c) == CASE c = "a" -> "A" [] c = "b" -> "B" [] c = "c" -> "C"
                    [] c = "p" -> "P" [] OTHER -> c
\* the characters the regular expression [-_\s] matches
isSeparator(c) == c \in {"-", "_", " "}

lowerString(s) == [i \in 1..Len(s) |-> toLowerCase(s[i])]

\* String.prototype.split(/[-_\s]+/): the words between runs of separators
RECURSIVE splitWords(_, _, _)
splitWords(s, i, words) ==
  IF i > Len(s) THEN words
  ELSE IF isSeparator(s[i])
    THEN (IF i > 1 /\ isSeparator(s[i - 1])
            THEN splitWords(s, i + 1, words)
            ELSE splitWords(s, i + 1, Append(words, <<>>)))
    ELSE splitWords(s, i + 1,
           [words EXCEPT ![Len(words)] = Append(words[Len(words)], s[i])])

capitalize(word) ==
  IF word = <<>> THEN <<>> ELSE <<toUpperCase(word[1])>> \o Tail(word)

RECURSIVE joinWords(_, _)
joinWords(words, i) ==
  IF i > Len(words) THEN <<>>
  ELSE (IF i = 1 THEN words[i] ELSE capitalize(words[i])) \o joinWords(words, i + 1)

includesHyphen(s) == \E i \in 1..Len(s) : s[i] = "-"

\* a variant: every name is split, with or without a hyphen
formatAbilityToMethod_always(ability) ==
  joinWords(splitWords(lowerString(ability), 1, <<<<>>>>), 1)

formatAbilityToMethod(ability) ==
  IF includesHyphen(ability)
    THEN joinWords(splitWords(lowerString(ability), 1, <<<<>>>>), 1)
    ELSE ability


(***************************************************************************)
(* Callbacks.  An ability callback, hook or policy method is a function    *)
(* the application supplies; the model knows each by what it returns.      *)
(***************************************************************************)
Callbacks == {"retNull", "retUndefined", "retTrue", "retFalse", "isAuthed",
              "denyNotFound", "allowResponse", "denyResponse",
              "throwBoom", "throwBang"}
\* typeof x !== 'function'
NotAFunction == "none"

\* the value the callback returns when it is called with this user
invoke(callback, user) ==
  CASE callback = "retNull" -> Null
    [] callback = "retUndefined" -> Undefined
    [] callback = "retTrue" -> Bool(TRUE)
    [] callback = "retFalse" -> Bool(FALSE)
    [] callback = "isAuthed" -> Bool(userTruthy(user))
    [] callback = "denyNotFound" -> denyAsNotFound
    [] callback = "allowResponse" -> allow
    [] callback = "denyResponse" -> deny
    [] callback = "throwBoom" -> Thrown(Boom)
    [] callback = "throwBang" -> Thrown(Bang)

(***************************************************************************)
(* The state of a GateService, of the callers and of the scopes.           *)
(***************************************************************************)
\* the async contexts: Main is the root context, a task is the context that
\* one runWithUser call made for its asynchronous callback
Main == 0
Tasks == {1, 2}
Contexts == {Main} \cup Tasks

VARIABLES
  policies,         \* Map<Type, PolicyMap> in insertion order: <<[type, policy]>>
  abilities,        \* Map<string, AbilityCallback>: name -> callback | NotAFunction
  beforeCallbacks,  \* Array<BeforeCallback>
  afterCallbacks,   \* Array<AfterCallback>
  rls,              \* AsyncLocalStorage: per async context, the stack of stores
  last,             \* what the most recent query of the Main context did
  pc,               \* per scope body: where it stands
  body,             \* per scope body: its user and the abilities still to query
  running,          \* per scope body: the callbacks of the raw call in progress
  heard             \* per scope body: the calls its callbacks have received

vars == <<policies, abilities, beforeCallbacks, afterCallbacks, rls, last,
          pc, body, running, heard>>
config == <<policies, abilities, beforeCallbacks, afterCallbacks>>
scopes == <<pc, body, running, heard>>

\* policy[name] when it is a function, NotAFunction otherwise
member(policy, name) ==
  IF name \in DOMAIN policy THEN policy[name] ELSE NotAFunction

BeforeName == <<"b", "e", "f", "o", "r", "e">>

(***************************************************************************)
(* One call of a callback, as the callback sees it.                        *)
(***************************************************************************)
Call(fn, at, user, ability, args, given, result) ==
  [fn |-> fn, at |-> at, user |-> user, ability |-> ability, args |-> args,
   given |-> given, result |-> result]

\* what a step of the pipeline hands on: its result, the args array as it
\* leaves it, and the calls it made
Step(result, args, calls) == [result |-> result, args |-> args, calls |-> calls]

(***************************************************************************)
(* has, getPolicyFor and the resolution of the auth callback.              *)
(***************************************************************************)
has(names) == \A i \in 1..Len(names) : abilities[names[i]] # NotAFunction

\* proto instanceof target, for proto the object itself or the class's prototype
instanceOf(obj, target) ==
  IF obj.kind = "object"
    THEN target = obj.type \/ target \in Ancestors(obj.type)
    ELSE target \in Ancestors(obj.type)

\* a variant: the first registered policy whose type is the subject's type or
\* an ancestor of it, with no preference for the exact type
getPolicyFor_insertionOrder(obj) ==
  LET matching == {i \in 1..Len(policies) :
                     policies[i].type \in {obj.type} \cup Ancestors(obj.type)}
  IN IF obj.kind \notin {"object", "function"} \/ matching = {} THEN 0
     ELSE CHOOSE i \in matching : \A j \in matching : i <= j

\* the index in policies of the policy for obj; 0 is the code's false
getPolicyFor(obj) ==
  LET exact == {i \in 1..Len(policies) : policies[i].type = obj.type}
      inherited == {i \in 1..Len(policies) : instanceOf(obj, policies[i].type)}
      Min(S) == CHOOSE i \in S : \A j \in S : i <= j
  IN IF obj.kind \notin {"object", "function"} THEN 0
     ELSE IF exact # {} THEN Min(exact)
     ELSE IF inherited # {} THEN Min(inherited)
     ELSE 0

\* the method the policy callback will call; <<>> is the code's false
resolvePolicyCallback(ability, policy) ==
  LET method == formatAbilityToMethod(ability)
  IN IF member(policy, method) = NotAFunction THEN <<>> ELSE method

NoPolicyCallback == [kind |-> "default", policy |-> 0, method |-> <<>>]

\* a variant: a global ability callback is preferred to the policy
resolveAuthCallback_abilityFirst(ability, args) ==
  IF abilities[ability] # NotAFunction
    THEN [NoPolicyCallback EXCEPT !.kind = "ability"]
    ELSE IF /\ Len(args) > 0
            /\ argTruthy(args[1])
            /\ getPolicyFor(args[1]) # 0
            /\ resolvePolicyCallback(ability, policies[getPolicyFor(args[1])].policy) # <<>>
      THEN [kind |-> "policy", policy |-> getPolicyFor(args[1]),
            method |-> resolvePolicyCallback(ability,
                         policies[getPolicyFor(args[1])].policy)]
      ELSE NoPolicyCallback

resolveAuthCallback(ability, args) ==
  IF /\ Len(args) > 0
     /\ argTruthy(args[1])
     /\ getPolicyFor(args[1]) # 0
     /\ resolvePolicyCallback(ability, policies[getPolicyFor(args[1])].policy) # <<>>
    THEN [kind |-> "policy", policy |-> getPolicyFor(args[1]),
          method |-> resolvePolicyCallback(ability,
                       policies[getPolicyFor(args[1])].policy)]
    ELSE IF abilities[ability] # NotAFunction
      THEN [NoPolicyCallback EXCEPT !.kind = "ability"]
      ELSE NoPolicyCallback

(***************************************************************************)
(* The pipeline of raw.                                                     *)
(***************************************************************************)
\* a variant: only a truthy result of a before-hook is returned (|| for ??)
beforeGivesResult_truthy(result) == isTruthy(result)

\* result !== null && result !== undefined
beforeGivesResult(result) == ~isNullish(result)

RECURSIVE beforeLoop(_, _, _, _)
beforeLoop(i, user, ability, args) ==
  IF i > Len(beforeCallbacks) THEN Step(Null, args, <<>>)
  ELSE LET result == invoke(beforeCallbacks[i], user)
           call == Call("before", i, user, ability, args, Null, result)
       IN IF beforeGivesResult(result)
            THEN Step(result, args, <<call>>)
            ELSE LET rest == beforeLoop(i + 1, user, ability, args)
                 IN Step(rest.result, args, <<call>> \o rest.calls)

callBeforeCallbacks(user, ability, args) == beforeLoop(1, user, ability, args)

\* a variant: the result of the policy's before is dropped
callPolicyBefore_ignored(policy, at, user, ability, args) ==
  IF member(policy, BeforeName) = NotAFunction
    THEN Step(Undefined, args, <<>>)
    ELSE Step(Undefined, args,
              <<Call("policy.before", at, user, ability, args, Null,
                     invoke(member(policy, BeforeName), user))>>)

\* policy.before(user, ability, ...args), undefined when there is none
callPolicyBefore(policy, at, user, ability, args) ==
  IF member(policy, BeforeName) = NotAFunction
    THEN Step(Undefined, args, <<>>)
    ELSE LET result == invoke(member(policy, BeforeName), user)
         IN Step(result, args,
                 <<Call("policy.before", at, user, ability, args, Null, result)>>)

\* a variant: the class is left in the arguments of the policy method
callPolicyMethod_keepsClass(policy, at, method, user, ability, args) ==
  Step(invoke(member(policy, method), user), args,
       <<Call("policy.method", at, user, ability, args, Null,
              invoke(member(policy, method), user))>>)

\* args.shift() when args[0] is a class, then policy[method](user, ...args)
callPolicyMethod(policy, at, method, user, ability, args) ==
  LET shifted == IF Len(args) > 0 /\ args[1].kind = "function"
                   THEN Tail(args) ELSE args
      result == invoke(member(policy, method), user)
  IN Step(result, shifted,
          <<Call("policy.method", at, user, ability, shifted, Null, result)>>)

\* a step and the step that follows it
andThen(first, second) ==
  Step(second.result, second.args, first.calls \o second.calls)

\* (await before) ?? (await method): the method runs when before gave a nullish
policyMethodAfter(at, method, user, ability, first) ==
  IF ~isNullish(first.result) THEN first
  ELSE andThen(first, callPolicyMethod(policies[at].policy, at, method, user,
                                       ability, first.args))

\* the callback resolvePolicyCallback returns
policyCallback(at, method, user, ability, args) ==
  policyMethodAfter(at, method, user, ability,
    callPolicyBefore(policies[at].policy, at, user, ability, args))

\* callback(user, ...args) for the callback resolveAuthCallback gave
callResolved(callback, user, ability, args) ==
  CASE callback.kind = "policy" ->
         policyCallback(callback.policy, callback.method, user, ability, args)
    [] callback.kind = "ability" ->
         Step(invoke(abilities[ability], user), args,
              <<Call("ability", 0, user, ability, args, Null,
                     invoke(abilities[ability], user))>>)
    [] OTHER -> Step(Null, args, <<>>)

callAuthCallback(user, ability, args) ==
  callResolved(resolveAuthCallback(ability, args), user, ability, args)

\* a variant: every after-hook is called and its result assigned
afterIsCalled_always(result) == TRUE

\* result ??= ...: the right-hand side runs only when result is nullish
afterIsCalled(result) == isNullish(result)

RECURSIVE afterLoop(_, _, _, _, _)
afterLoop(i, user, ability, args, result) ==
  IF i > Len(afterCallbacks) THEN Step(result, args, <<>>)
  ELSE IF afterIsCalled(result)
    THEN LET returned == invoke(afterCallbacks[i], user)
             rest == afterLoop(i + 1, user, ability, args, returned)
         IN Step(rest.result, args,
                 <<Call("after", i, user, ability, args, result, returned)>>
                   \o rest.calls)
    ELSE afterLoop(i + 1, user, ability, args, result)

callAfterCallbacks(user, ability, args, result) ==
  afterLoop(1, user, ability, args, result)

\* (await callBeforeCallbacks) ?? (await callAuthCallback)
authAfterBefore(user, ability, first) ==
  IF isNullish(first.result)
    THEN andThen(first, callAuthCallback(user, ability, first.args))
    ELSE first

\* result = await callAfterCallbacks(user, ability, args, result)
afterAfterAuth(user, ability, second) ==
  andThen(second, callAfterCallbacks(user, ability, second.args, second.result))

\* raw, from the user resolveUser() gave it
raw(user, ability, args) ==
  afterAfterAuth(user, ability,
    authAfterBefore(user, ability, callBeforeCallbacks(user, ability, args)))

(***************************************************************************)
(* The query methods.  Each gives what it returns (ret), the status of the *)
(* exception it throws (raised, 0 for none), the args array as it leaves   *)
(* it, and the calls it made.                                              *)
(***************************************************************************)
Outcome(ret, raised, args, calls) ==
  [ret |-> ret, raised |-> raised, args |-> args, calls |-> calls]

\* a variant: a null or undefined raw result is taken for an allow
inspectResponse_lenient(result) ==
  IF result.kind = "GateResponse" THEN result
  ELSE IF isTruthy(result) \/ isNullish(result) THEN allow ELSE deny

\* result instanceof GateResponse ? result : result ? allow() : deny()
inspectResponse(result) ==
  IF result.kind = "GateResponse" THEN result
  ELSE IF isTruthy(result) THEN allow ELSE deny

\* a variant: an error thrown inside raw is caught and taken for a denial
inspectOf_swallows(r) == Outcome(inspectResponse(r.result), 0, r.args, r.calls)

\* const result = await this.raw(...): a rejection leaves inspect at once
inspectOf(r) ==
  IF isThrown(r.result) THEN Outcome(r.result, r.result.status, r.args, r.calls)
  ELSE Outcome(inspectResponse(r.result), 0, r.args, r.calls)

inspect(user, ability, args) == inspectOf(raw(user, ability, args))

\* an outcome and the rest of the loop that follows it
thenRest(r, rest) ==
  Outcome(rest.ret, rest.raised, rest.args, r.calls \o rest.calls)

RECURSIVE checkLoop(_, _, _, _)
\* a variant: check goes on to the next ability after a denial and answers
\* false at the end
checkNext_eager(i, user, names, r) ==
  IF r.raised # 0 THEN r
  ELSE IF ~r.ret.allowed
    THEN Outcome(Bool(FALSE), 0, checkLoop(i + 1, user, names, r.args).args,
                 r.calls \o checkLoop(i + 1, user, names, r.args).calls)
    ELSE thenRest(r, checkLoop(i + 1, user, names, r.args))

\* if (!(await inspect(ability, args)).allowed) return false
checkNext(i, user, names, r) ==
  IF r.raised # 0 THEN r
  ELSE IF ~r.ret.allowed THEN Outcome(Bool(FALSE), 0, r.args, r.calls)
  ELSE thenRest(r, checkLoop(i + 1, user, names, r.args))

checkLoop(i, user, names, args) ==
  IF i > Len(names) THEN Outcome(Bool(TRUE), 0, args, <<>>)
  ELSE checkNext(i, user, names, inspect(user, names[i], args))

check(user, names, args) == checkLoop(1, user, names, args)

RECURSIVE anyLoop(_, _, _, _)
\* if ((await inspect(ability, args)).allowed) return true
anyNext(i, user, names, r) ==
  IF r.raised # 0 THEN r
  ELSE IF r.ret.allowed THEN Outcome(Bool(TRUE), 0, r.args, r.calls)
  ELSE thenRest(r, anyLoop(i + 1, user, names, r.args))

anyLoop(i, user, names, args) ==
  IF i > Len(names) THEN Outcome(Bool(FALSE), 0, args, <<>>)
  ELSE anyNext(i, user, names, inspect(user, names[i], args))

any(user, names, args) == anyLoop(1, user, names, args)

allows(user, names, args) == check(user, names, args)

\* !(await ...)
negated(r) ==
  IF r.raised # 0 THEN r ELSE Outcome(Bool(~r.ret.allowed), 0, r.args, r.calls)

\* a variant: denies asks whether none of the abilities is allowed
denies_none(user, names, args) == negated(any(user, names, args))

denies(user, names, args) == negated(allows(user, names, args))

none(user, names, args) == negated(any(user, names, args))

authorizeOf(r) ==
  IF r.raised # 0 THEN r
  ELSE Outcome(r.ret, authorizeResponse(r.ret), r.args, r.calls)

authorize(user, ability, args) == authorizeOf(inspect(user, ability, args))

(***************************************************************************)
(* The current user: AsyncLocalStorage.run and getStore.                   *)
(***************************************************************************)
\* a variant: one store shared by every async context
rlsRun_shared(store, t, user) == [u \in Contexts |-> Append(store[t], user)]

\* rls.run(user, callback): the callback's async context gets its own store
rlsRun(store, t, user) == [store EXCEPT ![t] = Append(@, user)]

\* a variant: the store is still the callback's after run has returned
rlsRunIn_leaks(store, parent, t, user) ==
  [store EXCEPT ![t] = Append(store[parent], user),
                ![parent] = Append(store[parent], user)]

\* rls.run(user, callback) called in async context parent, for an async
\* callback: the callback's context t has the store user inside whatever
\* parent is inside, and parent has its own store back when run returns
rlsRunIn(store, parent, t, user) ==
  [store EXCEPT ![t] = Append(store[parent], user)]

\* a variant: the gate never finds a store
resolveUser_unset(store, t) == "undefined"

\* rls.getStore() in async context t
resolveUser(store, t) ==
  IF store[t] = <<>> THEN "undefined" ELSE store[t][Len(store[t])]

(***************************************************************************)
(* Ability names, policies and args arrays the callers use.                *)
(***************************************************************************)
CreatePostKebab == <<"c", "r", "e", "a", "t", "e", "-", "p", "o", "s", "t">>
CreatePostCamel == <<"c", "r", "e", "a", "t", "e", "P", "o", "s", "t">>
ViewName == <<"v", "i", "e", "w">>
AbilityNames == {CreatePostKebab, CreatePostCamel, ViewName}

\* a policy object with a before method and a createPost method, either of
\* which may be missing (NotAFunction)
PolicyOf(beforeMethod, createPost) ==
  (BeforeName :> beforeMethod) @@ (CreatePostCamel :> createPost)
Provider(type, policy) == [type |-> type, policy |-> policy]

\* the lists of at most n names
RECURSIVE ListsOf(_, _)
ListsOf(S, n) ==
  IF n = 0 THEN {<<>>}
  ELSE ListsOf(S, n - 1) \cup
       {Append(l, x) : l \in {m \in ListsOf(S, n - 1) : Len(m) = n - 1}, x \in S}

(***************************************************************************)
(* Init: a GateService as constructed (lines 41-45), nothing called yet.   *)
(***************************************************************************)
NoPrior == [op |-> "no call", args0 |-> <<>>, ret |-> Null]
NoCall == [op |-> "no call", in |-> <<>>, names |-> <<>>, args0 |-> <<>>,
           same |-> FALSE, prior |-> NoPrior, found |-> 0,
           ret |-> Null, raised |-> 0, args |-> <<>>, calls |-> <<>>]

NoBody == [user |-> "undefined", names |-> <<>>]

Init ==
  /\ policies = <<>>
  /\ abilities = [a \in AbilityNames |-> NotAFunction]
  /\ beforeCallbacks = <<>>
  /\ afterCallbacks = <<>>
  /\ rls = [c \in Contexts |-> <<>>]
  /\ last = NoCall
  /\ pc = [t \in Tasks |-> "idle"]
  /\ body = [t \in Tasks |-> NoBody]
  /\ running = [t \in Tasks |-> <<>>]
  /\ heard = [t \in Tasks |-> <<>>]

Idle == \A t \in Tasks : pc[t] = "idle"

(***************************************************************************)
(* Registration.  The summary of the last query is of the configuration    *)
(* it ran under, so a registration forgets it.                             *)
(***************************************************************************)
\* Map.set(type, policy): a new key goes last, a known key keeps its place
mapSet(map, type, policy) ==
  IF \E i \in 1..Len(map) : map[i].type = type
    THEN [i \in 1..Len(map) |->
            IF map[i].type = type THEN Provider(type, policy) ELSE map[i]]
    ELSE Append(map, Provider(type, policy))

RECURSIVE setAll(_, _, _)
setAll(map, providers, i) ==
  IF i > Len(providers) THEN map
  ELSE setAll(mapSet(map, providers[i].type, providers[i].policy), providers, i + 1)

\* Nest calls the hook once, when the application has started
onApplicationBootstrap(providers) ==
  /\ policies = <<>>
  /\ Idle
  /\ policies' = setAll(policies, providers, 1)
  /\ last' = NoCall
  /\ UNCHANGED <<abilities, beforeCallbacks, afterCallbacks, rls, scopes>>

define(ability, callback) ==
  /\ Idle
  /\ abilities' = [abilities EXCEPT ![ability] = callback]
  /\ last' = NoCall
  /\ UNCHANGED <<policies, beforeCallbacks, afterCallbacks, rls, scopes>>

before(callback) ==
  /\ Idle
  /\ Len(beforeCallbacks) < MaxHooks
  /\ beforeCallbacks' = Append(beforeCallbacks, callback)
  /\ last' = NoCall
  /\ UNCHANGED <<policies, abilities, afterCallbacks, rls, scopes>>

after(callback) ==
  /\ Idle
  /\ Len(afterCallbacks) < MaxHooks
  /\ afterCallbacks' = Append(afterCallbacks, callback)
  /\ last' = NoCall
  /\ UNCHANGED <<policies, abilities, beforeCallbacks, rls, scopes>>

(***************************************************************************)
(* A query of the Main context: gate.runWithUser(u1, () =>                 *)
(* gate.runWithUser(u2, ... () => gate.op(names, args))) for the users in, *)
(* a bare gate.op(names, args) when in is empty.  With same, the array is  *)
(* the one the previous query was given, as that query left it.            *)
(***************************************************************************)
RECURSIVE runAll(_, _, _, _)
runAll(store, t, in, i) ==
  IF i > Len(in) THEN store ELSE runAll(rlsRun(store, t, in[i]), t, in, i + 1)

rawOf(r) ==
  Outcome(r.result, IF isThrown(r.result) THEN r.result.status ELSE 0,
          r.args, r.calls)

perform(op, user, names, args) ==
  CASE op = "raw" -> rawOf(raw(user, names[1], args))
    [] op = "inspect" -> inspect(user, names[1], args)
    [] op = "authorize" -> authorize(user, names[1], args)
    [] op = "check" -> check(user, names, args)
    [] op = "allows" -> allows(user, names, args)
    [] op = "denies" -> denies(user, names, args)
    [] op = "any" -> any(user, names, args)
    [] op = "none" -> none(user, names, args)

\* the methods whose answers the callers compare: a method and its negation
Negations == {<<"allows", "denies">>, <<"denies", "allows">>,
              <<"any", "none">>, <<"none", "any">>}

\* what is kept of a query: how it was made, its outcome o, and (prior) what
\* the query before it answered when that one was made by the same user for
\* the same names, with the negated method or with the same method on the
\* same array
Summary(in, op, names, args0, same, o) ==
  [op |-> op, in |-> in, names |-> names, args0 |-> args0, same |-> same,
   prior |-> IF /\ last.names = names /\ last.in = in
                /\ \/ same /\ last.op = op
                   \/ <<last.op, op>> \in Negations
               THEN [op |-> last.op, args0 |-> last.args0, ret |-> last.ret]
               ELSE NoPrior,
   found |-> 0,
   ret |-> o.ret, raised |-> o.raised, args |-> o.args, calls |-> o.calls]

QueryWith(in, op, names, args0, same) ==
  /\ Idle
  /\ last' = Summary(in, op, names, args0, same,
                     perform(op, resolveUser(runAll(rls, Main, in, 1), Main),
                             names, args0))
  /\ UNCHANGED <<config, rls, scopes>>

Query(in, op, names, args, same) ==
  /\ same => last.op # "no call"
  /\ QueryWith(in, op, names, IF same THEN last.args ELSE args, same)

QueryRaw(in, ability, args, same) == Query(in, "raw", <<ability>>, args, same)
QueryInspect(in, ability, args, same) == Query(in, "inspect", <<ability>>, args, same)
QueryAuthorize(in, ability, args, same) == Query(in, "authorize", <<ability>>, args, same)
QueryCheck(in, names, args, same) == Query(in, "check", names, args, same)
QueryAllows(in, names, args, same) == Query(in, "allows", names, args, same)
QueryDenies(in, names, args, same) == Query(in, "denies", names, args, same)
QueryAny(in, names, args, same) == Query(in, "any", names, args, same)
QueryNone(in, names, args, same) == Query(in, "none", names, args, same)

\* gate.getPolicyFor(obj), called by the application: found is the place in
\* policies of the policy it returns, 0 when it returns false
GetPolicyFor(obj) ==
  /\ Idle
  /\ last' = [NoCall EXCEPT !.op = "getPolicyFor", !.args0 = <<obj>>,
                            !.found = getPolicyFor(obj)]
  /\ UNCHANGED <<config, rls, scopes>>

\* this.formatAbilityToMethod(ability), as resolvePolicyCallback calls it:
\* found is the method name it returns
FormatAbilityToMethod(ability) ==
  /\ Idle
  /\ last' = [NoCall EXCEPT !.op = "formatAbilityToMethod",
                            !.names = <<ability>>,
                            !.found = formatAbilityToMethod(ability)]
  /\ UNCHANGED <<config, rls, scopes>>

(***************************************************************************)
(* Spec: hooks are registered around one ability and one policy, and the   *)
(* Main context queries single abilities inside runWithUser("A", ...). *)
(***************************************************************************)
BeforeHooks == {"retNull", "retUndefined", "retFalse"}
AfterHooks == {"retUndefined", "retFalse", "retTrue"}
BasePolicy == PolicyOf("retNull", "retFalse")
HookAbilities == {CreatePostKebab, ViewName}
HookArgs == {<<>>, <<Instance("Derived")>>}

Next ==
  \/ \E callback \in BeforeHooks : before(callback)
  \/ \E callback \in AfterHooks : after(callback)
  \/ \E callback \in {"retTrue", "retFalse"} : define(CreatePostKebab, callback)
  \/ onApplicationBootstrap(<<Provider("Base", BasePolicy)>>)
  \/ \E a \in HookAbilities, args \in HookArgs : QueryRaw(<<"A">>, a, args, FALSE)
  \/ \E a \in HookAbilities, args \in HookArgs : QueryInspect(<<"A">>, a, args, FALSE)
  \/ \E a \in HookAbilities, args \in HookArgs : QueryCheck(<<"A">>, <<a>>, args, FALSE)
  \/ \E a \in HookAbilities, args \in HookArgs : QueryAllows(<<"A">>, <<a>>, args, FALSE)

Spec == Init /\ [][Next]_vars

(***************************************************************************)
(* SpecPolicy: one policy, with or without a before method and with or     *)
(* without a createPost method, is registered for Base or for Derived;     *)
(* abilities are defined; an after-hook may be registered; the Main        *)
(* context calls raw with every kind of first argument.                    *)
(***************************************************************************)
PolicyBefores == {NotAFunction, "retNull", "retUndefined", "retTrue", "retFalse"}
PolicyMethods == {NotAFunction, "retTrue", "retFalse", "retNull"}
PolicyProviders ==
  {<<Provider(type, PolicyOf(b, m))>> :
     type \in {"Base", "Derived"}, b \in PolicyBefores, m \in PolicyMethods}
PolicyAbilities == {CreatePostKebab, ViewName}
PolicyArgs == {<<>>, <<Falsy>>, <<Instance("Base")>>, <<Instance("Derived")>>,
               <<ClassRef("Derived")>>, <<Instance("Other")>>,
               <<ClassRef("Derived"), Instance("Other")>>,
               <<Instance("Derived"), Instance("Other")>>}

NextPolicy ==
  \/ \E providers \in PolicyProviders : onApplicationBootstrap(providers)
  \/ \E a \in PolicyAbilities, callback \in {"retTrue", "retFalse"} :
       define(a, callback)
  \/ after("retTrue")
  \/ \E a \in PolicyAbilities, args \in PolicyArgs : QueryRaw(<<"A">>, a, args, FALSE)

SpecPolicy == Init /\ [][NextPolicy]_vars

(***************************************************************************)
(* SpecList: a policy whose createPost method allows is registered for     *)
(* Base, create-post gets a global callback that allows and createPost one *)
(* that denies; the Main context asks about lists of      *)
(* abilities, with no subject, with an instance and with a class, and may  *)
(* hand the array of its previous raw call to the next one.                *)
(***************************************************************************)
ListPolicy == PolicyOf(NotAFunction, "retTrue")
ListAbilities == {CreatePostKebab, CreatePostCamel}
ListDefines == {<<CreatePostKebab, "retTrue">>, <<CreatePostCamel, "retFalse">>}
ListArgs == {<<>>, <<Instance("Base")>>, <<ClassRef("Base")>>}

NextList ==
  \/ onApplicationBootstrap(<<Provider("Base", ListPolicy)>>)
  \/ \E d \in ListDefines : define(d[1], d[2])
  \/ \E a \in ListAbilities, args \in ListArgs, same \in BOOLEAN :
       QueryRaw(<<"A">>, a, args, same)
  \/ \E names \in ListsOf(ListAbilities, MaxList), args \in ListArgs :
       QueryCheck(<<"A">>, names, args, FALSE)
  \/ \E names \in ListsOf(ListAbilities, MaxList), args \in ListArgs :
       QueryAllows(<<"A">>, names, args, FALSE)
  \/ \E names \in ListsOf(ListAbilities, MaxList), args \in ListArgs :
       QueryDenies(<<"A">>, names, args, FALSE)
  \/ \E names \in ListsOf(ListAbilities, MaxList), args \in ListArgs :
       QueryAny(<<"A">>, names, args, FALSE)
  \/ \E names \in ListsOf(ListAbilities, MaxList), args \in ListArgs :
       QueryNone(<<"A">>, names, args, FALSE)

SpecList == Init /\ [][NextList]_vars

(***************************************************************************)
(* SpecLookup: policies are registered for up to MaxProviders classes of   *)
(* the hierarchy Base <- Derived <- Leaf and Other, in every order, and    *)
(* the application looks up the policy of instances and of classes.        *)
(***************************************************************************)
LookupPolicy == PolicyOf(NotAFunction, "retTrue")
LookupProviders ==
  {[i \in 1..Len(types) |-> Provider(types[i], LookupPolicy)] :
     types \in ListsOf(Classes, MaxProviders)}
LookupSubjects == {Instance(c) : c \in Classes} \cup {ClassRef(c) : c \in Classes}

NextLookup ==
  \/ \E providers \in LookupProviders : onApplicationBootstrap(providers)
  \/ \E obj \in LookupSubjects : GetPolicyFor(obj)

SpecLookup == Init /\ [][NextLookup]_vars

(***************************************************************************)
(* SpecScope: hooks that give nothing, an ability callback and a policy    *)
(* method that both answer !!user; the Main context queries outside every  *)
(* scope, inside runWithUser(user, ...) and inside a scope nested in       *)
(* another.                                                                *)
(***************************************************************************)
ScopePolicy == PolicyOf("retNull", "isAuthed")
ScopeIns == {<<>>, <<"A">>, <<"null">>, <<"A", "null">>, <<"null", "B">>}
ScopeAbilities == {ViewName, CreatePostKebab}
ScopeArgs == {<<>>, <<Instance("Base")>>}

NextScope ==
  \/ before("retNull")
  \/ after("retUndefined")
  \/ define(ViewName, "isAuthed")
  \/ onApplicationBootstrap(<<Provider("Base", ScopePolicy)>>)
  \/ \E in \in ScopeIns, a \in ScopeAbilities, args \in ScopeArgs :
       QueryRaw(in, a, args, FALSE)
  \/ \E in \in ScopeIns, a \in ScopeAbilities, args \in ScopeArgs :
       QueryAllows(in, <<a>>, args, FALSE)

SpecScope == Init /\ [][NextScope]_vars

(***************************************************************************)
(* SpecAuthorize: ability callbacks and hooks that return booleans, null   *)
(* and responses with and without a status; the Main context calls         *)
(* authorize and inspect.                                                  *)
(***************************************************************************)
AuthorizeCallbacks == {"retTrue", "retFalse", "retNull", "denyNotFound",
                       "allowResponse", "denyResponse"}
AuthorizeBefores == {"retNull", "denyNotFound"}
AuthorizeAfters == {"retUndefined", "retTrue", "denyResponse"}
AuthorizeAbilities == {ViewName, CreatePostKebab}

NextAuthorize ==
  \/ \E callback \in AuthorizeCallbacks : define(ViewName, callback)
  \/ \E callback \in AuthorizeBefores : before(callback)
  \/ \E callback \in AuthorizeAfters : after(callback)
  \/ \E in \in {<<>>, <<"A">>}, a \in AuthorizeAbilities :
       QueryAuthorize(in, a, <<>>, FALSE)
  \/ \E in \in {<<>>, <<"A">>}, a \in AuthorizeAbilities :
       QueryInspect(in, a, <<>>, FALSE)

SpecAuthorize == Init /\ [][NextAuthorize]_vars

(***************************************************************************)
(* SpecThrow: hooks, an ability callback, a policy before and a policy     *)
(* method that may throw; the Main context calls every kind of query.      *)
(***************************************************************************)
ThrowBefores == {"retNull", "throwBoom"}
ThrowAfters == {"retUndefined", "throwBang"}
ThrowDefines == {"retTrue", "throwBoom"}
ThrowProviders ==
  {<<Provider("Base", PolicyOf(b, m))>> :
     b \in {NotAFunction, "throwBang"}, m \in {"retNull", "throwBoom"}}
ThrowArgs == {<<>>, <<Instance("Base")>>}
ThrowLists == {names \in ListsOf({CreatePostKebab}, MaxList) : names # <<>>}

NextThrow ==
  \/ \E callback \in ThrowBefores : before(callback)
  \/ \E callback \in ThrowAfters : after(callback)
  \/ \E callback \in ThrowDefines : define(CreatePostKebab, callback)
  \/ \E providers \in ThrowProviders : onApplicationBootstrap(providers)
  \/ \E args \in ThrowArgs : QueryRaw(<<"A">>, CreatePostKebab, args, FALSE)
  \/ \E args \in ThrowArgs : QueryAuthorize(<<"A">>, CreatePostKebab, args, FALSE)
  \/ \E names \in ThrowLists, args \in ThrowArgs :
       QueryCheck(<<"A">>, names, args, FALSE)
  \/ \E names \in ThrowLists, args \in ThrowArgs :
       QueryNone(<<"A">>, names, args, FALSE)

SpecThrow == Init /\ [][NextThrow]_vars

(***************************************************************************)
(* SpecOrder: a before-hook that gives nothing is registered, so that      *)
(* every evaluation of an ability starts with a call of it; abilities are  *)
(* defined to allow or to deny and a policy is registered for Base; the    *)
(* Main context calls check and any with lists of abilities.               *)
(***************************************************************************)
OrderAbilities == {ViewName, CreatePostKebab}
OrderLists == ListsOf(OrderAbilities, MaxList)
OrderArgs == {<<>>, <<ClassRef("Base")>>}

NextOrder ==
  \/ before("retNull")
  \/ \E a \in OrderAbilities, callback \in {"retTrue", "retFalse"} :
       define(a, callback)
  \/ onApplicationBootstrap(<<Provider("Base", ListPolicy)>>)
  \/ \E names \in OrderLists, args \in OrderArgs :
       QueryCheck(<<"A">>, names, args, FALSE)
  \/ \E names \in OrderLists, args \in OrderArgs :
       QueryAny(<<"A">>, names, args, FALSE)

SpecOrder == Init /\ [][NextOrder]_vars

(***************************************************************************)
(* SpecFormat: the method name of every ability name of up to MaxName      *)
(* characters that are lower-case letters, upper-case letters, hyphens,    *)
(* underscores and spaces.                                                 *)
(***************************************************************************)
NameChars == {"a", "P", "-", "_", " "}
FormatNames == ListsOf(NameChars, MaxName)

NextFormat == \E ability \in FormatNames : FormatAbilityToMethod(ability)

SpecFormat == Init /\ [][NextFormat]_vars

(***************************************************************************)
(* Scopes that run concurrently.  runWithUser(user, body) for an async     *)
(* body that awaits and then calls raw for each of its abilities:          *)
(*   async () => { for (const a of names) { await 0; await gate.raw(a) } } *)
(* A task moves at each await: into raw (where the user is resolved),      *)
(* through the callbacks raw awaits one after the other, and out of raw.   *)
(***************************************************************************)
runWithUser(t, user, names) ==
  /\ pc[t] = "idle"
  /\ rls' = rlsRun(rls, t, user)
  /\ body' = [body EXCEPT ![t] = [user |-> user, names |-> names]]
  /\ heard' = [heard EXCEPT ![t] = <<>>]
  /\ pc' = [pc EXCEPT ![t] = "body"]
  /\ UNCHANGED <<config, last, running>>

\* raw is entered: resolveUser() and, from it, the calls raw is going to make
EnterRaw(t) ==
  /\ pc[t] = "body"
  /\ body[t].names # <<>>
  /\ running' = [running EXCEPT ![t] =
                   raw(resolveUser(rls, t), Head(body[t].names), <<>>).calls]
  /\ body' = [body EXCEPT ![t].names = Tail(@)]
  /\ pc' = [pc EXCEPT ![t] = "raw"]
  /\ UNCHANGED <<config, rls, last, heard>>

\* the next hook or callback of the raw call is awaited
CallbackRuns(t) ==
  /\ pc[t] = "raw"
  /\ running[t] # <<>>
  /\ heard' = [heard EXCEPT ![t] = Append(@, Head(running[t]))]
  /\ running' = [running EXCEPT ![t] = Tail(@)]
  /\ UNCHANGED <<config, rls, last, pc, body>>

ReturnRaw(t) ==
  /\ pc[t] = "raw"
  /\ running[t] = <<>>
  /\ pc' = [pc EXCEPT ![t] = "body"]
  /\ UNCHANGED <<config, rls, last, body, running, heard>>

\* the body has returned: its async context is gone, and its store with it
ExitScope(t) ==
  /\ pc[t] = "body"
  /\ body[t].names = <<>>
  /\ rls' = [rls EXCEPT ![t] = <<>>]
  /\ body' = [body EXCEPT ![t] = NoBody]
  /\ heard' = [heard EXCEPT ![t] = <<>>]
  /\ pc' = [pc EXCEPT ![t] = "idle"]
  /\ UNCHANGED <<config, last, running>>

(***************************************************************************)
(* Nested scopes.  runWithUser is called outside every scope (by Main) or  *)
(* by the body of a scope that is between two of its raw calls; the new    *)
(* body runs on, interleaved with the body that started it.  A body ends   *)
(* by returning (ExitScope) or by throwing between two raw calls.          *)
(***************************************************************************)
runWithUserIn(parent, t, user, names) ==
  /\ parent # t
  /\ IF parent = Main THEN TRUE ELSE pc[parent] = "body"
  /\ Len(rls[parent]) < MaxDepth
  /\ pc[t] = "idle"
  /\ rls' = rlsRunIn(rls, parent, t, user)
  /\ body' = [body EXCEPT ![t] = [user |-> user, names |-> names]]
  /\ heard' = [heard EXCEPT ![t] = <<>>]
  /\ pc' = [pc EXCEPT ![t] = "body"]
  /\ UNCHANGED <<config, last, running>>

\* the body throws: the promise runWithUser returned is rejected
ThrowInScope(t) ==
  /\ pc[t] = "body"
  /\ pc' = [pc EXCEPT ![t] = "thrown"]
  /\ UNCHANGED <<config, rls, last, body, running, heard>>

\* the rejection is handled by whoever awaited the scope
CatchScope(t) ==
  /\ pc[t] = "thrown"
  /\ rls' = [rls EXCEPT ![t] = <<>>]
  /\ body' = [body EXCEPT ![t] = NoBody]
  /\ heard' = [heard EXCEPT ![t] = <<>>]
  /\ pc' = [pc EXCEPT ![t] = "idle"]
  /\ UNCHANGED <<config, last, running>>

(***************************************************************************)
(* SpecNest: an ability callback is registered; scopes are started outside *)
(* every scope and inside one another, end by return or by exception, and  *)
(* the Main context queries when all have ended.                           *)
(***************************************************************************)
NestBodies == {names \in ListsOf({CreatePostKebab}, MaxBody) : names # <<>>}

NextNest ==
  \/ define(CreatePostKebab, "isAuthed")
  \/ \E parent \in Contexts, t \in Tasks, user \in Users, names \in NestBodies :
       runWithUserIn(parent, t, user, names)
  \/ \E t \in Tasks : EnterRaw(t)
  \/ \E t \in Tasks : CallbackRuns(t)
  \/ \E t \in Tasks : ReturnRaw(t)
  \/ \E t \in Tasks : ExitScope(t)
  \/ \E t \in Tasks : ThrowInScope(t)
  \/ \E t \in Tasks : CatchScope(t)
  \/ QueryRaw(<<>>, CreatePostKebab, <<>>, FALSE)

SpecNest == Init /\ [][NextNest]_vars

(***************************************************************************)
(* Callbacks that suspend.  A hook or callback is started, may suspend on  *)
(* asynchronous work while other scopes run, and settles later; heard[t]   *)
(* holds the start and the end of every call of the raw call in progress.  *)
(***************************************************************************)
Event(call, phase) == [call |-> call, phase |-> phase, user |-> call.user]

\* the calls of the log that have started and have not settled
InProgress(log) ==
  {k \in 1..Len(log) :
     /\ log[k].phase = "start"
     /\ ~\E m \in (k + 1)..Len(log) :
           log[m].phase = "end" /\ log[m].call = log[k].call}

\* a variant: the hooks and callbacks are started without awaiting the ones
\* started before them
stageMayStart_eager(log) == TRUE

\* await callback(...): the next call is made when the one before has settled
stageMayStart(log) == InProgress(log) = {}

StageStarts(t) ==
  /\ pc[t] = "raw"
  /\ running[t] # <<>>
  /\ stageMayStart(heard[t])
  /\ heard' = [heard EXCEPT ![t] = Append(@, Event(Head(running[t]), "start"))]
  /\ running' = [running EXCEPT ![t] = Tail(@)]
  /\ UNCHANGED <<config, rls, last, pc, body>>

StageSettles(t) ==
  /\ pc[t] = "raw"
  /\ \E k \in InProgress(heard[t]) :
       heard' = [heard EXCEPT ![t] = Append(@, Event(heard[t][k].call, "end"))]
  /\ UNCHANGED <<config, rls, last, pc, body, running>>

\* return result: every call has been made and has settled
StagedReturn(t) ==
  /\ pc[t] = "raw"
  /\ running[t] = <<>>
  /\ InProgress(heard[t]) = {}
  /\ heard' = [heard EXCEPT ![t] = <<>>]
  /\ pc' = [pc EXCEPT ![t] = "body"]
  /\ UNCHANGED <<config, rls, last, body, running>>

(***************************************************************************)
(* SpecStage: before-hooks, an ability callback and after-hooks that all   *)
(* give nothing, so that every stage runs; two scopes run raw calls whose  *)
(* callbacks suspend, interleaved in every order.                          *)
(***************************************************************************)
StageBodies == {names \in ListsOf({CreatePostKebab}, MaxBody) : names # <<>>}

NextStage ==
  \/ before("retNull")
  \/ after("retUndefined")
  \/ define(CreatePostKebab, "retNull")
  \/ \E t \in Tasks, names \in StageBodies : runWithUser(t, "A", names)
  \/ \E t \in Tasks : EnterRaw(t)
  \/ \E t \in Tasks : StageStarts(t)
  \/ \E t \in Tasks : StageSettles(t)
  \/ \E t \in Tasks : StagedReturn(t)
  \/ \E t \in Tasks : ExitScope(t)

SpecStage == Init /\ [][NextStage]_vars

(***************************************************************************)
(* SpecConc: hooks and an ability callback are registered, then two scopes *)
(* run with their steps interleaved in every order.                        *)
(***************************************************************************)
ConcBodies == {names \in ListsOf({CreatePostKebab}, MaxBody) : names # <<>>}

NextConc ==
  \/ before("retNull")
  \/ after("retUndefined")
  \/ define(CreatePostKebab, "isAuthed")
  \/ \E t \in Tasks, user \in Users, names \in ConcBodies :
       runWithUser(t, user, names)
  \/ \E t \in Tasks : EnterRaw(t)
  \/ \E t \in Tasks : CallbackRuns(t)
  \/ \E t \in Tasks : ReturnRaw(t)
  \/ \E t \in Tasks : ExitScope(t)

SpecConc == Init /\ [][NextConc]_vars

(***************************************************************************)
(* What the claims read off the summary of the last query.                 *)
(***************************************************************************)
CallsOf(fn) == {k \in 1..Len(last.calls) : last.calls[k].fn = fn}
AuthFns == {"policy.before", "policy.method", "ability"}
SingleQuery == last.op \in {"raw", "inspect", "authorize"} \/ Len(last.names) = 1

\* C2: when a before-hook returns a value that is neither null nor undefined
\* (false included), that call is the last call the query makes (no later
\* before-hook, no policy before, no policy method, no ability callback and no
\* after-hook runs), raw returns that very value, and allows is false when the
\* value is false.
C2_BeforeHookShortCircuits ==
  SingleQuery =>
    \A k \in CallsOf("before") :
      ~isNullish(last.calls[k].result) =>
        /\ k = Len(last.calls)
        /\ last.op = "raw" => last.ret = last.calls[k].result
        /\ (last.op = "allows" /\ last.calls[k].result = Bool(FALSE))
             => last.ret = Bool(FALSE)

\* a second before-hook returned false to allows('create-post', [subject])
\* although an allowing callback, a policy and an after-hook are registered
C2_Witness ==
  /\ last.op = "allows"
  /\ abilities[last.names[1]] = "retTrue"
  /\ Len(policies) > 0 /\ Len(last.args0) > 0
  /\ Len(afterCallbacks) > 0
  /\ Len(last.calls) = 2
  /\ last.calls[2].fn = "before"
  /\ last.calls[2].result = Bool(FALSE)
  /\ last.ret = Bool(FALSE)

C4_AfterHooksAlwaysRunAndOverride ==
  last.op = "raw" =>
    /\ \A i \in 1..Len(afterCallbacks) :
         \E k \in CallsOf("after") : last.calls[k].at = i
    /\ (Len(afterCallbacks) > 0 /\ afterCallbacks[Len(afterCallbacks)] = "retTrue")
         => last.ret = Bool(TRUE)

\* no global callback for the ability, no policy method for args[0], and no
\* hook that gave a non-null result
C9_Unresolved ==
  /\ last.op \in {"raw", "inspect", "check"}
  /\ Len(last.names) = 1
  /\ abilities[last.names[1]] = NotAFunction
  /\ resolveAuthCallback(last.names[1], last.args0).kind = "default"
  /\ \A k \in 1..Len(last.calls) : isNullish(last.calls[k].result)

\* C9 as claimed: for an unresolved ability raw returns null, inspect returns a
\* denied response, check is false, and nothing is raised.
C9_UnresolvedRawIsNull ==
  C9_Unresolved =>
    /\ last.raised = 0
    /\ last.op = "raw" => last.ret = Null
    /\ last.op = "inspect" => last.ret = deny
    /\ last.op = "check" => last.ret = Bool(FALSE)

\* C9 as amended: for an unresolved ability raw returns null when no after-hook
\* is registered and otherwise what the last after-hook returned, which is null
\* or undefined; inspect returns a denied response, check is false, and nothing
\* is raised.
C9_UnresolvedDenies ==
  C9_Unresolved =>
    /\ last.raised = 0
    /\ last.op = "raw" =>
         /\ isNullish(last.ret)
         /\ last.ret = IF afterCallbacks = <<>> THEN Null
                       ELSE invoke(afterCallbacks[Len(afterCallbacks)], "A")
    /\ last.op = "inspect" => last.ret = deny
    /\ last.op = "check" => last.ret = Bool(FALSE)

\* check(['view'], [subject]) was denied: the subject's policy has no view
\* method, no callback is defined for view, and both hooks gave nothing
C9_Witness ==
  /\ C9_Unresolved
  /\ last.op = "check"
  /\ Len(policies) > 0 /\ Len(last.args0) > 0
  /\ CallsOf("before") # {} /\ CallsOf("after") # {}
  /\ last.ret = Bool(FALSE)

(***************************************************************************)
(* The outcome of the auth callback of the last raw call: what the first   *)
(* after-hook was given, and what raw returned when no after-hook ran.     *)
(***************************************************************************)
First(S) == CHOOSE k \in S : \A m \in S : k <= m
AuthOutcome ==
  IF CallsOf("after") # {} THEN last.calls[First(CallsOf("after"))].given
  ELSE last.ret

\* C5: when the policy's before returns a value that is neither null nor
\* undefined, that value is the outcome of the auth callback and the policy's
\* ability method is not called; when before returns null or undefined, or the
\* policy has no before, the ability method is called next (for the same
\* policy) and its result is the outcome.
C5_PolicyBeforeShortCircuits ==
  (last.op = "raw" /\ CallsOf("before") = {}) =>
    /\ \A k \in CallsOf("policy.before") :
         IF ~isNullish(last.calls[k].result)
           THEN /\ CallsOf("policy.method") = {}
                /\ AuthOutcome = last.calls[k].result
           ELSE /\ k + 1 \in CallsOf("policy.method")
                /\ last.calls[k + 1].at = last.calls[k].at
                /\ AuthOutcome = last.calls[k + 1].result
    /\ \A k \in CallsOf("policy.method") :
         /\ AuthOutcome = last.calls[k].result
         /\ IF member(policies[last.calls[k].at].policy, BeforeName) = NotAFunction
              THEN CallsOf("policy.before") = {}
              ELSE k - 1 \in CallsOf("policy.before")

\* the policy's before allowed create-post and its createPost method, which
\* denies, was not called
C5_Witness ==
  /\ last.op = "raw"
  /\ Len(last.calls) = 1
  /\ last.calls[1].fn = "policy.before"
  /\ last.calls[1].result = Bool(TRUE)
  /\ member(policies[last.calls[1].at].policy, CreatePostCamel) = "retFalse"
  /\ last.ret = Bool(TRUE)

\* the claim's case: args[0] is truthy and has a policy that exposes the
\* method derived from the ability name
C10_PolicyAnswers ==
  /\ Len(last.args0) > 0
  /\ argTruthy(last.args0[1])
  /\ getPolicyFor(last.args0[1]) # 0
  /\ member(policies[getPolicyFor(last.args0[1])].policy,
            formatAbilityToMethod(last.names[1])) # NotAFunction

\* C10: when args[0] is truthy and has a policy exposing the derived method,
\* only that policy is called (its before, then its method), its last call
\* gives the outcome, and the global callback of the same name is not called;
\* otherwise no policy is called, not even its before: the global callback, if
\* one is registered, is called once and gives the outcome, and the outcome is
\* null if none is registered.
C10_ResolutionOrder ==
  (last.op = "raw" /\ CallsOf("before") = {}) =>
    LET auth == CallsOf("policy.before") \cup CallsOf("policy.method")
    IN IF C10_PolicyAnswers
         THEN /\ CallsOf("ability") = {}
              /\ auth # {}
              /\ \A k \in auth : last.calls[k].at = getPolicyFor(last.args0[1])
              /\ \E k \in auth : /\ \A m \in auth : m <= k
                                 /\ AuthOutcome = last.calls[k].result
         ELSE /\ auth = {}
              /\ IF abilities[last.names[1]] # NotAFunction
                   THEN /\ Cardinality(CallsOf("ability")) = 1
                        /\ \A k \in CallsOf("ability") :
                             /\ AuthOutcome = last.calls[k].result
                             /\ last.calls[k].result =
                                  invoke(abilities[last.names[1]], last.calls[k].user)
                   ELSE /\ CallsOf("ability") = {}
                        /\ AuthOutcome = Null

\* create-post has an allowing global callback, but the subject's policy has a
\* createPost method that denies: the policy answered
C10_Witness ==
  /\ last.op = "raw"
  /\ C10_PolicyAnswers
  /\ abilities[last.names[1]] = "retTrue"
  /\ CallsOf("policy.method") # {}
  /\ last.ret = Bool(FALSE)

\* the subject has a policy, but the policy has no view method: the global
\* callback of view answered and the policy's before was not called
C10_WitnessFallThrough ==
  /\ last.op = "raw"
  /\ ~C10_PolicyAnswers
  /\ Len(last.args0) > 0 /\ getPolicyFor(last.args0[1]) # 0
  /\ member(policies[getPolicyFor(last.args0[1])].policy, BeforeName) # NotAFunction
  /\ CallsOf("ability") # {}

\* the user the last query ran for
LastUser == resolveUser(runAll(rls, Main, last.in, 1), Main)

\* C6 as claimed: check, and allows, return true if and only if inspect, given
\* the args the caller supplied, allows each ability of the list.
C6_CheckIffEveryInspectAllows ==
  last.op \in {"check", "allows"} =>
    (last.ret.allowed <=>
       \A i \in 1..Len(last.names) :
         inspect(LastUser, last.names[i], last.args0).ret.allowed)

\* C7: denies answers the negation of what allows answered, and none the
\* negation of what any answered, for the same names and equal args under
\* the same configuration and user, whichever of the two was asked first.
C7_NegationPairs ==
  (<<last.prior.op, last.op>> \in Negations /\ last.prior.args0 = last.args0)
    => last.ret = Bool(~last.prior.ret.allowed)

\* denies answered true for a two-name list with a class as subject, right
\* after allows had answered false for it
C7_Witness ==
  /\ last.op = "denies" /\ last.prior.op = "allows"
  /\ Len(last.names) = 2
  /\ last.args0 = <<ClassRef("Base")>> /\ last.prior.args0 = last.args0
  /\ Len(policies) > 0
  /\ last.ret = Bool(TRUE)

\* none answered false right after any had answered true
C7_WitnessNone ==
  /\ last.op = "none" /\ last.prior.op = "any"
  /\ Len(last.names) = 2
  /\ last.prior.args0 = last.args0
  /\ last.ret = Bool(FALSE)

\* C8 as claimed: a raw call given the same ability and the same args list as
\* the raw call before it, under the same configuration and user, returns what
\* that call returned.
C8_RawIsRepeatable ==
  (last.op = "raw" /\ last.same /\ last.prior.op = "raw")
    => last.ret = last.prior.ret

\* C1: under every interleaving of the steps of the scopes, every hook and
\* callback called on behalf of a scope receives the user that scope was
\* started with, never the user of the other scope.
C1_PrincipalIsolation ==
  \A t \in Tasks :
    \A k \in 1..Len(heard[t]) : heard[t][k].user = body[t].user

\* scope 1 runs for A and scope 2 for B, both are inside their second raw
\* call, and each has had callbacks called before and after callbacks of the
\* other
C1_Witness ==
  /\ body[1].user = "A" /\ body[2].user = "B"
  /\ pc[1] = "raw" /\ pc[2] = "raw"
  /\ Len(heard[1]) >= 3 /\ Len(heard[2]) >= 3
  /\ running[1] # <<>> /\ running[2] # <<>>
  /\ heard[1][1].user = "A" /\ heard[2][1].user = "B"

\* the places in policies of the subject's own type and of its ancestors
RegisteredFor(types) == {i \in 1..Len(policies) : policies[i].type \in types}

\* C11: getPolicyFor(subject) returns the policy registered for exactly the
\* subject's type whenever there is one, wherever an ancestor's policy stands
\* in the registration order; otherwise a policy registered for an ancestor of
\* the subject's type, for an instance and for a class alike; otherwise false.
C11_PolicyLookup ==
  last.op = "getPolicyFor" =>
    LET obj == last.args0[1]
    IN IF RegisteredFor({obj.type}) # {}
         THEN last.found \in RegisteredFor({obj.type})
         ELSE IF RegisteredFor(Ancestors(obj.type)) # {}
           THEN last.found \in RegisteredFor(Ancestors(obj.type))
           ELSE last.found = 0

\* the policy of Base was registered before the policy of Derived, and the
\* lookup of the class Derived returned the policy of Derived
C11_Witness ==
  /\ last.op = "getPolicyFor"
  /\ last.args0 = <<ClassRef("Derived")>>
  /\ Len(policies) >= 2
  /\ policies[1].type = "Base"
  /\ last.found > 1
  /\ policies[last.found].type = "Derived"

\* with policies for Other and Base only, the lookup of a Leaf instance
\* returned the policy of its ancestor Base
C11_WitnessAncestor ==
  /\ last.op = "getPolicyFor"
  /\ last.args0 = <<Instance("Leaf")>>
  /\ RegisteredFor({"Leaf", "Derived"}) = {}
  /\ last.found # 0
  /\ policies[last.found].type = "Base"

\* the user of the innermost runWithUser the last query was issued in
ScopeUser == IF last.in = <<>> THEN "undefined" ELSE last.in[Len(last.in)]

\* C12: every hook, policy method and ability callback a query calls receives
\* the user of the runWithUser scope the query was issued in, and undefined
\* when it was issued outside every scope; nothing is raised; and allows of an
\* ability defined as user => !!user is true in a scope with a truthy user and
\* false in a scope with null and outside every scope.
C12_AmbientPrincipalDelivery ==
  last.op \in {"raw", "allows"} =>
    /\ \A k \in 1..Len(last.calls) : last.calls[k].user = ScopeUser
    /\ last.raised = 0
    /\ (last.op = "allows" /\ CallsOf("ability") # {}
          /\ abilities[last.names[1]] = "isAuthed")
         => last.ret = Bool(ScopeUser \in Users)

\* allows('view') answered false outside every scope: the before-hook and
\* the ability callback were both called with undefined
C12_Witness ==
  /\ last.op = "allows" /\ last.in = <<>>
  /\ Len(last.calls) = 2
  /\ last.calls[1].fn = "before"
  /\ last.calls[2].fn = "ability"
  /\ \A k \in 1..2 : last.calls[k].user = "undefined"
  /\ last.ret = Bool(FALSE)

\* allows('view') answered true inside runWithUser(A, ...)
C12_WitnessTruthy ==
  /\ last.op = "allows" /\ last.in = <<"A">>
  /\ CallsOf("ability") # {}
  /\ last.ret = Bool(TRUE)

\* C13: a scope started inside another scope has its own user in every call
\* its queries make, while the queries of the body that started it, before
\* and after, have that body's user, whether the inner scope is still
\* running, has returned or has thrown; and a query made outside every scope
\* once the scopes have ended has no user.
C13_NestedScopesRestore ==
  /\ \A t \in Tasks :
       \A k \in 1..Len(heard[t]) : heard[t][k].user = body[t].user
  /\ last.op = "raw" =>
       \A k \in 1..Len(last.calls) : last.calls[k].user = "undefined"

\* scope 2 was started for B inside the scope of A and has ended by an
\* exception after its callback was called with B; the body of A is in its
\* second raw call, made after it started scope 2, and the callback of that
\* call has been called with A
C13_Witness ==
  /\ body[1].user = "A" /\ rls[1] = <<"A">>
  /\ body[2].user = "B" /\ rls[2] = <<"A", "B">>
  /\ pc[2] = "thrown" /\ heard[2] # <<>> /\ heard[2][1].user = "B"
  /\ pc[1] = "raw" /\ body[1].names = <<>> /\ running[1] = <<>>
  /\ Len(heard[1]) = 2 /\ heard[1][2].user = "A"

\* every scope has ended and a raw call outside every scope called the
\* ability callback with no user
C13_WitnessOutside ==
  /\ last.op = "raw" /\ CallsOf("ability") # {}
  /\ \A c \in Contexts : rls[c] = <<>>

\* what the last call of the query returned; null when it made no call
Decided ==
  IF last.calls = <<>> THEN Null ELSE last.calls[Len(last.calls)].result

\* C14: authorize throws if and only if the response inspect gives is denied;
\* the response is the one the deciding hook or callback returned, or the
\* coercion of its boolean or null; the exception has the status set on the
\* response (404 for a response denied as not found) and 403 when none is
\* set; an allowed response is returned and nothing is thrown.
C14_AuthorizeRaisesIffDenied ==
  last.op = "authorize" =>
    /\ last.raised # 0 <=> ~last.ret.allowed
    /\ last.ret = IF Decided.kind = "GateResponse" THEN Decided
                  ELSE IF Decided = Bool(TRUE) THEN allow ELSE deny
    /\ last.raised # 0 =>
         last.raised = IF last.ret.status # 0 THEN last.ret.status
                       ELSE ForbiddenStatus
    /\ Decided = denyAsNotFound => last.raised = 404

\* the callback of view denied as not found and authorize threw with 404
C14_Witness ==
  /\ last.op = "authorize"
  /\ CallsOf("ability") # {}
  /\ last.ret = denyAsNotFound
  /\ last.raised = 404

\* the callback of view returned false and authorize threw with 403
C14_WitnessForbidden ==
  /\ last.op = "authorize"
  /\ Decided = Bool(FALSE)
  /\ last.ret = deny
  /\ last.raised = ForbiddenStatus

\* the callback of view returned an allowing response and authorize returned it
C14_WitnessAllowed ==
  /\ last.op = "authorize"
  /\ Decided = allow
  /\ last.ret = allow
  /\ last.raised = 0

\* C15: when a before-hook, a policy before, a policy method, an ability
\* callback or an after-hook throws during a query, the query method throws
\* that very error, the throwing call is the last call of the query, and the
\* step leaves the ability map, the hook lists and the policies as they were.
C15_CallbackFailurePropagates ==
  [][\A k \in 1..Len(last'.calls) :
       isThrown(last'.calls[k].result) =>
         /\ k = Len(last'.calls)
         /\ last'.raised = last'.calls[k].result.status
         /\ last'.ret = last'.calls[k].result
         /\ UNCHANGED config]_vars

\* check of a two-name list threw Boom: a before-hook ran, then the policy
\* method threw while the first name was evaluated; the registered after-hook
\* was not called and the second name was not evaluated
C15_Witness ==
  /\ last.op = "check" /\ Len(last.names) = 2
  /\ last.raised = Boom
  /\ afterCallbacks # <<>> /\ CallsOf("after") = {}
  /\ CallsOf("before") # {}
  /\ Cardinality(CallsOf("policy.method")) = 1
  /\ last.calls[Len(last.calls)].fn = "policy.method"
  /\ isThrown(last.calls[Len(last.calls)].result)

\* an after-hook threw Bang to none, after the hooks and callbacks before it
C15_WitnessAfter ==
  /\ last.op = "none"
  /\ last.raised = Bang
  /\ Len(last.calls) > 1
  /\ last.calls[Len(last.calls)].fn = "after"

\* the calls of the first before-hook: each starts the evaluation of one
\* ability of the list
Starts == {k \in 1..Len(last.calls) :
             last.calls[k].fn = "before" /\ last.calls[k].at = 1}
\* the call that starts the j-th evaluation, and the call that ends it
StartOf(j) == CHOOSE k \in Starts : Cardinality({m \in Starts : m <= k}) = j
EndOf(j) == IF j = Cardinality(Starts) THEN Len(last.calls) ELSE StartOf(j + 1) - 1
\* whether the j-th evaluation allowed: by what its last call returned
AllowedAt(j) == inspectResponse(last.calls[EndOf(j)].result).allowed

\* C16: check and any evaluate the abilities in list order: the j-th
\* evaluation is of the j-th name and all its calls are for that name; check
\* evaluates nothing after the first ability that is denied and any nothing
\* after the first that is allowed, and both go on to the next name otherwise.
C16_ListOrderShortCircuit ==
  (last.op \in {"check", "any"} /\ beforeCallbacks # <<>>) =>
    LET n == Cardinality(Starts)
        stop(j) == IF last.op = "check" THEN ~AllowedAt(j) ELSE AllowedAt(j)
    IN /\ n <= Len(last.names)
       /\ Len(last.names) > 0 => n > 0 /\ StartOf(1) = 1
       /\ \A j \in 1..n :
            \A k \in StartOf(j)..EndOf(j) : last.calls[k].ability = last.names[j]
       /\ \A j \in 1..n : stop(j) <=> (j = n /\ last.ret = Bool(last.op = "any"))
       /\ n < Len(last.names) => stop(n)

\* check of two different names: the first was denied and the second, which
\* has an allowing callback, was not evaluated
C16_Witness ==
  /\ last.op = "check" /\ beforeCallbacks # <<>>
  /\ Len(last.names) = 2 /\ last.names[1] # last.names[2]
  /\ abilities[last.names[2]] = "retTrue"
  /\ Cardinality(Starts) = 1
  /\ last.ret = Bool(FALSE)

\* any of two different names: the first was denied, the second evaluated
\* after it and allowed
C16_WitnessAny ==
  /\ last.op = "any" /\ beforeCallbacks # <<>>
  /\ Len(last.names) = 2 /\ last.names[1] # last.names[2]
  /\ Cardinality(Starts) = 2
  /\ last.ret = Bool(TRUE)

\* the stage of a call: the before-hooks, the auth callback, the after-hooks
StageOf(call) == CASE call.fn = "before" -> 1
                   [] call.fn = "after" -> 3
                   [] OTHER -> 2

\* C17: in one raw call the before-hooks are called in registration order,
\* then the auth callback, then the after-hooks in registration order, and
\* every call has settled before the next one starts: the log of a raw call
\* alternates the start and the end of one call after the other, and at no
\* time are two calls of the same raw call in progress.
C17_StagesInSequence ==
  \A t \in Tasks :
    LET log == heard[t]
    IN /\ Cardinality(InProgress(log)) <= 1
       /\ \A k \in 1..Len(log) :
            IF k % 2 = 1 THEN log[k].phase = "start"
            ELSE log[k].phase = "end" /\ log[k].call = log[k - 1].call
       /\ \A k, m \in 1..Len(log) :
            (k < m /\ log[k].phase = "start" /\ log[m].phase = "start") =>
              /\ StageOf(log[k].call) <= StageOf(log[m].call)
              /\ log[k].call.fn = log[m].call.fn => log[k].call.at < log[m].call.at

\* in scope 1 two before-hooks and the ability callback have settled and the
\* first after-hook is suspended, while scope 2 has a before-hook suspended
C17_Witness ==
  /\ pc[1] = "raw" /\ pc[2] = "raw"
  /\ Len(heard[1]) = 7
  /\ heard[1][1].call.fn = "before" /\ heard[1][3].call.fn = "before"
  /\ heard[1][5].call.fn = "ability"
  /\ heard[1][7].call.fn = "after" /\ InProgress(heard[1]) = {7}
  /\ running[1] # <<>>
  /\ Len(heard[2]) = 1 /\ InProgress(heard[2]) = {1}

\* the places of the characters of a name that are no separators
Letters(name) == {p \in 1..Len(name) : ~isSeparator(name[p])}
\* the place in name of its i-th character that is no separator
LetterAt(name, i) ==
  CHOOSE p \in Letters(name) : Cardinality({q \in Letters(name) : q <= p}) = i

\* camel case: the separators are gone, every letter that follows a separator
\* is in upper case and every other letter in lower case
IsCamelOf(method, name) ==
  /\ Len(method) = Cardinality(Letters(name))
  /\ \A i \in 1..Len(method) :
       LET p == LetterAt(name, i)
       IN method[i] = IF p > 1 /\ isSeparator(name[p - 1])
                        THEN toUpperCase(name[p])
                        ELSE toLowerCase(name[p])

C18_WitnessVerbatim ==
  /\ last.op = "formatAbilityToMethod"
  /\ last.names[1] = <<"a", "_", "P">>
  /\ last.found = <<"a", "_", "P">>

\* C19 as claimed: an ability name whose words are separated by hyphens or by
\* spaces has the camel-case name as its method name.
C19_SpacedNamesCamelCase ==
  (/\ last.op = "formatAbilityToMethod"
   /\ \E p \in 1..Len(last.names[1]) : last.names[1][p] \in {"-", " "}
   /\ \A p \in 1..Len(last.names[1]) : last.names[1][p] # "_")
    => IsCamelOf(last.found, last.names[1])

\* C20: the policy's before is called with the ability and the args as the
\* caller gave them, a class in the first place included; the policy method
\* is called with the args without their first element when that is a class,
\* and with all the args when it is an instance.
C20_ClassReferenceSubject ==
  (last.op = "raw" /\ CallsOf("before") = {}) =>
    /\ \A k \in CallsOf("policy.before") :
         /\ last.calls[k].args = last.args0
         /\ last.calls[k].ability = last.names[1]
    /\ \A k \in CallsOf("policy.method") :
         last.calls[k].args = IF last.args0[1].kind = "function"
                                THEN Tail(last.args0) ELSE last.args0

\* raw('create-post', [Derived, other]): the policy's before was called with
\* the class and the other argument, the policy method with the other
\* argument only
C20_Witness ==
  /\ last.op = "raw"
  /\ last.args0 = <<ClassRef("Derived"), Instance("Other")>>
  /\ Len(last.calls) >= 2
  /\ last.calls[1].fn = "policy.before"
  /\ last.calls[1].args = <<ClassRef("Derived"), Instance("Other")>>
  /\ last.calls[2].fn = "policy.method"
  /\ last.calls[2].args = <<Instance("Other")>>

\* raw('create-post', [derived, other]): the policy method was called with
\* the instance and the other argument
C20_WitnessInstance ==
  /\ last.op = "raw"
  /\ last.args0 = <<Instance("Derived"), Instance("Other")>>
  /\ \E k \in CallsOf("policy.method") : last.calls[k].args = last.args0

\* C21 as claimed: every query leaves the args array it was given with the
\* same elements in the same order, and within one raw call the after-hooks
\* are given the args the before-hooks were given.
C21_ArgsListUnchanged ==
  last.op \in {"raw", "inspect", "check", "allows", "denies", "any", "none",
               "authorize"} =>
    /\ last.args = last.args0
    /\ last.op = "raw" =>
         \A k \in CallsOf("before"), m \in CallsOf("after") :
           last.calls[k].args = last.calls[m].args

=============================================================================
